---------------------------- MODULE Spec2Model ----------------------------
(***************************************************************************)
(* A model of transform_projections.py: the two cell parsers, the          *)
(* percentile ranker percentrank_inc, and the transform pipeline as a      *)
(* sequence of steps over a column-wise table (the DataFrame df).          *)
(*                                                                         *)
(* Floats are modelled as exact rationals plus the IEEE specials NaN and   *)
(* +/-inf.  Text cells are sequences of one-character strings, so that     *)
(* strip / replace / float() are computed character by character.          *)
(***************************************************************************)
EXTENDS Integers, Sequences, FiniteSets, TLC

(***************************************************************************)
(* Bounds of the model.                                                    *)
(***************************************************************************)
\* longest sequence handed to percentrank_inc in the ranker specification
MaxLen == 3
\* most rows of an input table in the cell-content specification
MaxRows == 2
\* most rows of an input table in the percentile/delta specification
MaxRankRows == 4
\* most rows of an input table in the column-presence specification
MaxColRows == 2

(***************************************************************************)
(* Floats.                                                                 *)
(***************************************************************************)
Abs(k) == IF k < 0 THEN -k ELSE k

Sign(k) == IF k < 0 THEN -1 ELSE IF k > 0 THEN 1 ELSE 0

RECURSIVE GCD(_, _)
GCD(a, b) == IF b = 0 THEN a ELSE GCD(b, a % b)

RECURSIVE Pow10(_)
Pow10(k) == IF k = 0 THEN 1 ELSE 10 * Pow10(k - 1)

\* np.nan
NaN == [t |-> "nan", n |-> 0, d |-> 1]

\* +inf (s = 1) and -inf (s = -1)
Inf(s) == [t |-> "inf", n |-> s, d |-> 1]

\* the finite float n / d, in lowest terms (d # 0)
Num(n, d) ==
    LET g == GCD(Abs(n), Abs(d))
        s == IF d < 0 THEN -1 ELSE 1
    IN  [t |-> "num", n |-> (s * n) \div g, d |-> (s * d) \div g]

IsNaN(a) == a.t = "nan"

\* mutant of FloatEq: NaN taken to equal NaN
FloatEq_nan_equal(a, b) == a = b

\* IEEE ==, as numpy's elementwise == applies it: NaN equals nothing
FloatEq(a, b) == ~IsNaN(a) /\ ~IsNaN(b) /\ a = b

\* a < b on floats other than NaN
FloatLess(a, b) ==
    CASE a.t = "inf" /\ b.t = "inf" -> a.n < b.n
      [] a.t = "inf" -> a.n < 0
      [] b.t = "inf" -> b.n > 0
      [] OTHER -> a.n * b.d < b.n * a.d

\* a * b
FloatMul(a, b) ==
    CASE IsNaN(a) \/ IsNaN(b) -> NaN
      [] a.t = "inf" \/ b.t = "inf" ->
            IF Sign(a.n) * Sign(b.n) = 0 THEN NaN ELSE Inf(Sign(a.n) * Sign(b.n))
      [] OTHER -> Num(a.n * b.n, a.d * b.d)

\* a - b
FloatSub(a, b) ==
    CASE IsNaN(a) \/ IsNaN(b) -> NaN
      [] a.t = "inf" /\ b.t = "inf" -> IF a.n = b.n THEN NaN ELSE a
      [] a.t = "inf" -> a
      [] b.t = "inf" -> Inf(-b.n)
      [] OTHER -> Num(a.n * b.d - b.n * a.d, a.d * b.d)

\* a / b as numpy divides float arrays: x / 0.0 is +/-inf, 0.0 / 0.0 is NaN
FloatDiv(a, b) ==
    CASE IsNaN(a) \/ IsNaN(b) -> NaN
      [] a.t = "inf" /\ b.t = "inf" -> NaN
      [] a.t = "inf" -> Inf(IF b.n < 0 THEN -a.n ELSE a.n)
      [] b.t = "inf" -> Num(0, 1)
      [] b.n = 0 -> IF a.n = 0 THEN NaN ELSE Inf(Sign(a.n))
      [] OTHER -> Num(a.n * b.d, a.d * b.n)

\* the integer nearest to n / d (d > 0), ties to the even one
RoundHalfEven(n, d) ==
    LET q == n \div d
        r == n % d
    IN  IF 2 * r < d THEN q
        ELSE IF 2 * r > d THEN q + 1
        ELSE IF q % 2 = 0 THEN q ELSE q + 1

\* Series.round(k): NaN and inf stay as they are
FloatRound(a, k) ==
    IF a.t # "num" THEN a
    ELSE Num(RoundHalfEven(a.n * Pow10(k), a.d), Pow10(k))

(***************************************************************************)
(* Text.                                                                   *)
(***************************************************************************)
Digits == <<"0", "1", "2", "3", "4", "5", "6", "7", "8", "9">>

IsDigit(c) == \E i \in 1..10 : Digits[i] = c

DigitVal(c) == (CHOOSE i \in 1..10 : Digits[i] = c) - 1

\* str.strip(): leading and trailing blanks removed
RECURSIVE strip(_)
strip(s) ==
    IF s = <<>> THEN s
    ELSE IF Head(s) = " " THEN strip(Tail(s))
    ELSE IF s[Len(s)] = " " THEN strip(SubSeq(s, 1, Len(s) - 1))
    ELSE s

\* str.replace(c, ""): every occurrence of the character c removed
replace(s, c) == SelectSeq(s, LAMBDA ch : ch # c)

\* the value of a sequence of digits, read as a decimal integer
RECURSIVE DigitsVal(_)
DigitsVal(s) ==
    IF s = <<>> THEN 0 ELSE 10 * DigitsVal(SubSeq(s, 1, Len(s) - 1)) + DigitVal(s[Len(s)])

AllDigits(s) == \A i \in 1..Len(s) : IsDigit(s[i])

\* the positions of "." in s
Dots(s) == {i \in 1..Len(s) : s[i] = "."}

\* float(s) accepts s (blanks around it ignored): digits with at most one
\* point and at least one digit, or the words nan and inf
ParsesAsFloat(s) ==
    LET u == strip(s)
        p == replace(u, ".")
    IN  \/ u = <<"n", "a", "n">>
        \/ u = <<"i", "n", "f">>
        \/ /\ p # <<>>
           /\ AllDigits(p)
           /\ Cardinality(Dots(u)) <= 1

\* float(s) where it is accepted; elsewhere Python raises ValueError
ParseFloat(s) ==
    LET u == strip(s)
        p == replace(u, ".")
        k == IF Dots(u) = {} THEN 0 ELSE Len(u) - (CHOOSE i \in Dots(u) : TRUE)
    IN  IF u = <<"n", "a", "n">> THEN NaN
        ELSE IF u = <<"i", "n", "f">> THEN Inf(1)
        ELSE Num(DigitsVal(p), Pow10(k))

(***************************************************************************)
(* Cells of the table as read_csv delivers them: a float (NaN for an       *)
(* empty cell) or a str.                                                   *)
(***************************************************************************)
Str(s) == [kind |-> "str", s |-> s, x |-> NaN]

Flt(x) == [kind |-> "float", s |-> <<>>, x |-> x]

Missing == Flt(NaN)

\* pd.isna(cell)
isna(c) == c.kind = "float" /\ IsNaN(c.x)

\* str(cell), needed only for the str cells of the model
str(c) == c.s

parse_salary(c) ==
    IF isna(c) THEN NaN
    ELSE LET s == replace(replace(strip(str(c)), "$"), ",")
         IN  IF ParsesAsFloat(s) THEN ParseFloat(s) ELSE NaN

parse_percent_str(c) ==
    IF isna(c) THEN Num(0, 1)
    ELSE LET s == replace(strip(str(c)), "%")
         IN  IF s = <<>> THEN Num(0, 1)
             ELSE IF ParsesAsFloat(s) THEN ParseFloat(s) ELSE Num(0, 1)

(***************************************************************************)
(* Formatting (Python format specifications on floats).                    *)
(***************************************************************************)
\* k written with at least w digits
RECURSIVE ZeroPad(_, _)
ZeroPad(k, w) ==
    IF w <= 1 /\ k < 10 THEN ToString(k)
    ELSE ZeroPad(k \div 10, w - 1) \o ToString(k % 10)

\* k >= 0 with a comma between groups of three digits (the "," option)
RECURSIVE Grouped(_)
Grouped(k) ==
    IF k < 1000 THEN ToString(k)
    ELSE Grouped(k \div 1000) \o "," \o ZeroPad(k % 1000, 3)

\* format(x, ".kf"), or ",.kf" with comma: nan and inf are spelled out; the
\* sign of a negative value is kept even when it rounds to zero
FormatFixed(x, k, comma) ==
    CASE x.t = "nan" -> "nan"
      [] x.t = "inf" -> IF x.n < 0 THEN "-inf" ELSE "inf"
      [] OTHER ->
            LET m  == Abs(RoundHalfEven(x.n * Pow10(k), x.d))
                ip == m \div Pow10(k)
                fp == m % Pow10(k)
            IN  (IF x.n < 0 THEN "-" ELSE "")
                \o (IF comma THEN Grouped(ip) ELSE ToString(ip))
                \o (IF k = 0 THEN "" ELSE "." \o ZeroPad(fp, k))

\* int(x) of a finite float: truncation toward zero
int(x) == Sign(x.n) * (Abs(x.n) \div x.d)

\* lambda x: f"${x:,.2f}" if pd.notna(x) else ""
FormatSalary(x) == IF IsNaN(x) THEN "" ELSE "$" \o FormatFixed(x, 2, TRUE)

\* lambda x: f"${x:.2f}" if pd.notna(x) else ""
FormatValue(x) == IF IsNaN(x) THEN "" ELSE "$" \o FormatFixed(x, 2, FALSE)

\* lambda x: f"{x:.2f}%"
FormatCeilingRank(x) == FormatFixed(x, 2, FALSE) \o "%"

\* lambda x: f"{int(x)}%"
FormatOwnershipRank(x) == ToString(int(x)) \o "%"

\* lambda x: f"{x:.1f}%"
FormatDelta(x) == FormatFixed(x, 1, FALSE) \o "%"

(***************************************************************************)
(* percentrank_inc.                                                        *)
(***************************************************************************)
\* the order np.sort puts floats in: ascending, NaN after everything else
SortsBefore(a, b) == ~IsNaN(a) /\ (IsNaN(b) \/ FloatLess(a, b))

\* mutant of np_sort: the input left in its own order
np_sort_unsorted(values) == values

\* np.sort(values)
np_sort(values) == SortSeq(values, SortsBefore)

Min(S) == CHOOSE m \in S : \A k \in S : m <= k

Max(S) == CHOOSE m \in S : \A k \in S : m >= k

\* mutant of np_where: np.where(sorted_vals <= x)[0]
np_where_le(sorted_vals, x) ==
    {j \in 0..(Len(sorted_vals) - 1) :
        FloatEq(sorted_vals[j + 1], x)
        \/ (~IsNaN(sorted_vals[j + 1]) /\ ~IsNaN(x) /\ FloatLess(sorted_vals[j + 1], x))}

\* np.where(sorted_vals == x)[0]: the 0-based positions holding x
np_where(sorted_vals, x) ==
    {j \in 0..(Len(sorted_vals) - 1) : FloatEq(sorted_vals[j + 1], x)}

\* mutant of pick_idx: the tie-breaks exchanged
pick_idx_swapped(idxs, use_first) == IF use_first THEN Max(idxs) ELSE Min(idxs)

\* idxs[0] if use_first else idxs[-1]
pick_idx(idxs, use_first) == IF use_first THEN Min(idxs) ELSE Max(idxs)

\* the rank appended for one value x
rank_of(sorted_vals, x, use_first) ==
    LET idxs == np_where(sorted_vals, x)
        n    == Len(sorted_vals)
    IN  IF idxs = {} THEN Num(1, 2)
        ELSE Num(pick_idx(idxs, use_first), n - 1)

percentrank_inc(values, use_first) ==
    LET sorted_vals == np_sort(values)
        n == Len(sorted_vals)
    IN  IF n <= 1 THEN [i \in 1..Len(values) |-> Num(0, 1)]
        ELSE [i \in 1..Len(values) |-> rank_of(sorted_vals, values[i], use_first)]

(***************************************************************************)
(* The input file and pd.read_csv.                                         *)
(*                                                                         *)
(* A file is a function from its header names to columns of raw cell       *)
(* texts.  read_csv infers each column's type: a column whose cells are    *)
(* all empty or numeric becomes a float column (empty cells NaN); any      *)
(* other column keeps its non-empty cells as str.                          *)
(***************************************************************************)
InputColumns ==
    {"Player", "DK Pos", "Team", "Opp", "DK Salary", "DK Proj", "DK Value",
     "Small Field", "Large Field", "DK Floor", "DK Ceiling", "id"}

IsNumericColumn(col) ==
    \A i \in 1..Len(col) : col[i] = <<>> \/ ParsesAsFloat(col[i])

read_column(col) ==
    IF IsNumericColumn(col)
    THEN [i \in 1..Len(col) |->
            IF col[i] = <<>> THEN Missing ELSE Flt(ParseFloat(col[i]))]
    ELSE [i \in 1..Len(col) |->
            IF col[i] = <<>> THEN Missing ELSE Str(col[i])]

read_csv(file) == [c \in DOMAIN file |-> read_column(file[c])]

(***************************************************************************)
(* The steps of transform as operators on the DataFrame df: a function     *)
(* from column names to columns.                                           *)
(***************************************************************************)
\* the number of rows of a table with at least one column
NRows(t) == IF DOMAIN t = {} THEN 0 ELSE Len(t[CHOOSE c \in DOMAIN t : TRUE])

\* df[name] = col
WithColumn(t, name, col) == [c \in DOMAIN t \cup {name} |-> IF c = name THEN col ELSE t[c]]

\* arithmetic on an object column raises TypeError when a cell is a str
HasStr(col) == \E i \in 1..Len(col) : col[i].kind = "str"

\* df["DK Salary"].apply(parse_salary)
salary_num(t) == [i \in 1..NRows(t) |-> parse_salary(t["DK Salary"][i])]

\* df["Large Field"].apply(parse_percent_str)
large_field(t) == [i \in 1..NRows(t) |-> parse_percent_str(t["Large Field"][i])]

\* (large_field_pct / 100.0).round(2)
OWN_FRAC(lf) == [i \in 1..Len(lf) |-> FloatRound(FloatDiv(lf[i], Num(100, 1)), 2)]

\* df["DK Ceiling"] * (1.0 - (large_field_pct / 100.0))
LEVERAGE_SCORE(t, lf) ==
    [i \in 1..Len(lf) |->
        FloatMul(t["DK Ceiling"][i].x,
                 FloatSub(Num(1, 1), FloatDiv(lf[i], Num(100, 1))))]

\* df["DK Proj"] / (df["salary_num"] / 1000.0)
VALUE_PER_1k_raw(t) ==
    [i \in 1..NRows(t) |->
        FloatDiv(t["DK Proj"][i].x, FloatDiv(t["salary_num"][i], Num(1000, 1)))]

\* df["DK Ceiling"].values
ceiling_vals(t) == [i \in 1..NRows(t) |-> t["DK Ceiling"][i].x]

\* (percentrank_inc(ceiling_vals, use_first=False) * 100.0).round(2)
CEILING_PCT_RANK(t) ==
    LET ceiling_rank == percentrank_inc(ceiling_vals(t), FALSE)
    IN  [i \in 1..NRows(t) |-> FloatRound(FloatMul(ceiling_rank[i], Num(100, 1)), 2)]

\* (percentrank_inc(large_field_pct.values, use_first=True) * 100.0).round(0)
OWNERSHIP_PCT_RANK(lf) ==
    LET ownership_rank == percentrank_inc(lf, TRUE)
    IN  [i \in 1..Len(lf) |-> FloatRound(FloatMul(ownership_rank[i], Num(100, 1)), 0)]

\* mutant of leverage_delta_raw: the difference of the unrounded ranks
leverage_delta_unrounded(t) ==
    LET ceiling_rank == percentrank_inc(ceiling_vals(t), FALSE)
        ownership_rank == percentrank_inc(large_field(t), TRUE)
    IN  [i \in 1..NRows(t) |->
            FloatSub(FloatMul(ceiling_rank[i], Num(100, 1)),
                     FloatMul(ownership_rank[i], Num(100, 1)))]

\* df["CEILING_PCT_RANK"] - df["OWNERSHIP_PCT_RANK"]
leverage_delta_raw(t) ==
    [i \in 1..NRows(t) |->
        FloatSub(t["CEILING_PCT_RANK"][i], t["OWNERSHIP_PCT_RANK"][i])]

\* the five formatted columns, added in the order of the code
formatted(t) ==
    LET n == NRows(t)
        t1 == WithColumn(t, "DK Salary_out",
                         [i \in 1..n |-> FormatSalary(t["salary_num"][i])])
        t2 == WithColumn(t1, "VALUE_PER_1k",
                         [i \in 1..n |-> FormatValue(t["VALUE_PER_1k_raw"][i])])
        t3 == WithColumn(t2, "CEILING_PCT_RANK_out",
                         [i \in 1..n |-> FormatCeilingRank(t["CEILING_PCT_RANK"][i])])
        t4 == WithColumn(t3, "OWNERSHIP_PCT_RANK_out",
                         [i \in 1..n |-> FormatOwnershipRank(t["OWNERSHIP_PCT_RANK"][i])])
    IN  WithColumn(t4, "leverage_delta_out",
                   [i \in 1..n |-> FormatDelta(t["leverage_delta_raw"][i])])

Range(f) == {f[i] : i \in DOMAIN f}

\* mutant of out_cols: "DK Floor" left out of the list
out_cols_without_floor ==
    <<"Player", "DK Pos", "Team", "Opp", "DK Salary_out", "DK Proj", "DK Value",
      "OWN_FRAC", "DK Ceiling", "LEVERAGE_SCORE", "VALUE_PER_1k",
      "CEILING_PCT_RANK_out", "OWNERSHIP_PCT_RANK_out", "leverage_delta_out", "id">>

out_cols ==
    <<"Player", "DK Pos", "Team", "Opp", "DK Salary_out", "DK Proj", "DK Value",
      "OWN_FRAC", "DK Floor", "DK Ceiling", "LEVERAGE_SCORE", "VALUE_PER_1k",
      "CEILING_PCT_RANK_out", "OWNERSHIP_PCT_RANK_out", "leverage_delta_out", "id">>

\* the final rename of the four "_out" columns
renamed(c) ==
    CASE c = "DK Salary_out" -> "DK Salary"
      [] c = "CEILING_PCT_RANK_out" -> "CEILING_PCT_RANK"
      [] c = "OWNERSHIP_PCT_RANK_out" -> "OWNERSHIP_PCT_RANK"
      [] c = "leverage_delta_out" -> "leverage_delta"
      [] OTHER -> c

\* mutant of select_out: the rows put in ascending order of DK Ceiling
select_out_sorted(t) ==
    LET n == NRows(t)
        order == SortSeq([i \in 1..n |-> i],
                         LAMBDA a, b : SortsBefore(t["DK Ceiling"][a].x, t["DK Ceiling"][b].x))
    IN  [columns |-> [k \in 1..Len(out_cols) |-> renamed(out_cols[k])],
         data    |-> [c \in {renamed(x) : x \in Range(out_cols)} |->
                        [i \in 1..n |->
                            t[CHOOSE x \in Range(out_cols) : renamed(x) = c][order[i]]]]]

\* df[out_cols].copy().rename(...): the header in its fixed order, and the
\* columns under their output names, every row kept in place
select_out(t) ==
    [columns |-> [k \in 1..Len(out_cols) |-> renamed(out_cols[k])],
     data    |-> [c \in {renamed(x) : x \in Range(out_cols)} |->
                    t[CHOOSE x \in Range(out_cols) : renamed(x) = c]]]

\* no table yet
NoTable == [columns |-> <<>>, data |-> <<>>]

(***************************************************************************)
(* State.                                                                  *)
(*   input_csv        the input file                                       *)
(*   pc               the step transform is about to run                   *)
(*   exc              the exception that ended the run, or "none"          *)
(*   df               the DataFrame                                        *)
(*   large_field_pct  the local Series of parsed Large Field percents      *)
(*   out_df           the selected and renamed output table                *)
(*   output_csv       the output file (NoTable until written)              *)
(*   io               the run's external effects, in order                 *)
(*   values, use_first, perm, results                                      *)
(*                    arguments and results of direct percentrank_inc      *)
(*                    calls (the ranker specification)                     *)
(***************************************************************************)
VARIABLES input_csv, pc, exc, df, large_field_pct, out_df, output_csv, io,
          values, use_first, perm, results

vars == <<input_csv, pc, exc, df, large_field_pct, out_df, output_csv, io,
          values, use_first, perm, results>>

rank_vars == <<values, use_first, perm, results>>

(***************************************************************************)
(* Input files.                                                            *)
(***************************************************************************)
\* the four cells of a row that the computations read
Variant(salary, proj, ceiling, large) ==
    [salary |-> salary, proj |-> proj, ceiling |-> ceiling, large |-> large]

\* row i of a file: identity cells numbered by i, the rest from v
FileRow(i, v) ==
    [c \in InputColumns |->
        CASE c = "Player" -> <<"P", Digits[i + 1]>>
          [] c = "DK Pos" -> <<"Q", "B">>
          [] c = "Team" -> <<"K", "C">>
          [] c = "Opp" -> <<"S", "F">>
          [] c = "DK Salary" -> v.salary
          [] c = "DK Proj" -> v.proj
          [] c = "DK Value" -> <<"4", ".", "5">>
          [] c = "Small Field" -> <<"1", "2", "%">>
          [] c = "Large Field" -> v.large
          [] c = "DK Floor" -> <<"8">>
          [] c = "DK Ceiling" -> v.ceiling
          [] OTHER -> <<"7", "0", Digits[i + 1]>>]

\* the file with header `present` and the rows built from the variants vs
File(vs, present) ==
    [c \in present |-> [i \in 1..Len(vs) |-> FileRow(i, vs[i])[c]]]

\* sequences over S of length lo..hi
SeqsOf(S, lo, hi) == UNION {[1..n -> S] : n \in lo..hi}

GoodSalary == <<"$", "5", ",", "0", "0", "0", " ">>
GoodProj == <<"2", "6">>
GoodCeiling == <<"1", "0">>
GoodLarge == <<"5", "0", "%">>
BadText == <<"a", "b", "c">>

\* well-formed rows, and rows with one cell empty, malformed or special
SampleRows ==
    {Variant(GoodSalary, GoodProj, c, l) :
        c \in {GoodCeiling, <<"2", "0">>}, l \in {GoodLarge, <<"2", "5", "%">>}}
    \cup {Variant(x, GoodProj, GoodCeiling, GoodLarge) :
        x \in {<<"$", "0">>, <<>>, BadText}}
    \cup {Variant(GoodSalary, x, GoodCeiling, GoodLarge) : x \in {<<>>, BadText}}
    \cup {Variant(GoodSalary, GoodProj, x, GoodLarge) : x \in {<<>>, BadText}}
    \cup {Variant(GoodSalary, GoodProj, GoodCeiling, x) :
        x \in {<<>>, BadText, <<"n", "a", "n", "%">>}}

\* well-formed rows with a choice of ceilings and ownership percents, and
\* one row with an empty Ceiling cell
RankRows ==
    {Variant(GoodSalary, GoodProj, c, l) :
        c \in {<<"1", "0">>, <<"2", "0">>},
        l \in {<<"2", "5", "%">>, <<"5", "0", "%">>}}
    \cup {Variant(GoodSalary, GoodProj, <<>>, GoodLarge)}

\* the state before a run on `file`
InitRun(file) ==
    /\ input_csv = file
    /\ pc = "read_csv"
    /\ exc = "none"
    /\ df = <<>>
    /\ large_field_pct = <<>>
    /\ out_df = NoTable
    /\ output_csv = NoTable
    /\ io = <<>>
    /\ values = <<>>
    /\ use_first = FALSE
    /\ perm = <<>>
    /\ results = <<>>

\* every column present, cell contents varied
Init == \E vs \in SeqsOf(SampleRows, 1, MaxRows) : InitRun(File(vs, InputColumns))

\* every column present, well-formed cells, more rows
InitDelta == \E vs \in SeqsOf(RankRows, 1, MaxRankRows) : InitRun(File(vs, InputColumns))

\* well-formed cells, any header
InitColumns ==
    \E n \in 1..MaxColRows, present \in SUBSET InputColumns :
        InitRun(File([i \in 1..n |-> Variant(GoodSalary, GoodProj, GoodCeiling, GoodLarge)],
                     present))

(***************************************************************************)
(* transform, step by step.  An exception ends the run where it is raised. *)
(***************************************************************************)
Running(step) == pc = step /\ exc = "none"

Raise(e) ==
    /\ exc' = e
    /\ UNCHANGED <<input_csv, pc, df, large_field_pct, out_df, output_csv, io, rank_vars>>

Goto(step) ==
    /\ pc' = step
    /\ UNCHANGED <<input_csv, exc, rank_vars>>

\* df = pd.read_csv(input_csv); the rename that follows maps every name to
\* itself.  Reading may fail (I/O).
ReadCsv ==
    /\ Running("read_csv")
    /\ \E ok \in BOOLEAN :
        IF ok
        THEN /\ df' = read_csv(input_csv)
             /\ io' = Append(io, "read")
             /\ Goto("salary_num")
             /\ UNCHANGED <<large_field_pct, out_df, output_csv>>
        ELSE Raise("IOError")

ParseSalary ==
    /\ Running("salary_num")
    /\ IF "DK Salary" \notin DOMAIN df THEN Raise("KeyError")
       ELSE /\ df' = WithColumn(df, "salary_num", salary_num(df))
            /\ Goto("large_field")
            /\ UNCHANGED <<large_field_pct, out_df, output_csv, io>>

ParseLargeField ==
    /\ Running("large_field")
    /\ IF "Large Field" \notin DOMAIN df THEN Raise("KeyError")
       ELSE /\ large_field_pct' = large_field(df)
            /\ Goto("OWN_FRAC")
            /\ UNCHANGED <<df, out_df, output_csv, io>>

OwnFrac ==
    /\ Running("OWN_FRAC")
    /\ df' = WithColumn(df, "OWN_FRAC", OWN_FRAC(large_field_pct))
    /\ Goto("LEVERAGE_SCORE")
    /\ UNCHANGED <<large_field_pct, out_df, output_csv, io>>

LeverageScore ==
    /\ Running("LEVERAGE_SCORE")
    /\ IF "DK Ceiling" \notin DOMAIN df THEN Raise("KeyError")
       ELSE IF HasStr(df["DK Ceiling"]) THEN Raise("TypeError")
       ELSE /\ df' = WithColumn(df, "LEVERAGE_SCORE", LEVERAGE_SCORE(df, large_field_pct))
            /\ Goto("VALUE_PER_1k_raw")
            /\ UNCHANGED <<large_field_pct, out_df, output_csv, io>>

ValuePer1k ==
    /\ Running("VALUE_PER_1k_raw")
    /\ IF "DK Proj" \notin DOMAIN df THEN Raise("KeyError")
       ELSE IF HasStr(df["DK Proj"]) THEN Raise("TypeError")
       ELSE /\ df' = WithColumn(df, "VALUE_PER_1k_raw", VALUE_PER_1k_raw(df))
            /\ Goto("PCT_RANK")
            /\ UNCHANGED <<large_field_pct, out_df, output_csv, io>>

PctRanks ==
    /\ Running("PCT_RANK")
    /\ df' = WithColumn(WithColumn(df, "CEILING_PCT_RANK", CEILING_PCT_RANK(df)),
                        "OWNERSHIP_PCT_RANK", OWNERSHIP_PCT_RANK(large_field_pct))
    /\ Goto("leverage_delta_raw")
    /\ UNCHANGED <<large_field_pct, out_df, output_csv, io>>

LeverageDelta ==
    /\ Running("leverage_delta_raw")
    /\ df' = WithColumn(df, "leverage_delta_raw", leverage_delta_raw(df))
    /\ Goto("format")
    /\ UNCHANGED <<large_field_pct, out_df, output_csv, io>>

Format ==
    /\ Running("format")
    /\ df' = formatted(df)
    /\ Goto("out_df")
    /\ UNCHANGED <<large_field_pct, out_df, output_csv, io>>

\* df[out_cols] raises KeyError when a listed column is not in df
SelectOut ==
    /\ Running("out_df")
    /\ IF ~(Range(out_cols) \subseteq DOMAIN df) THEN Raise("KeyError")
       ELSE /\ out_df' = select_out(df)
            /\ Goto("to_csv")
            /\ UNCHANGED <<df, large_field_pct, output_csv, io>>

\* mutant of ToCsv: a failed write is swallowed and the run goes on
ToCsv_swallow ==
    /\ Running("to_csv")
    /\ \E ok \in BOOLEAN :
        /\ output_csv' = IF ok THEN out_df ELSE output_csv
        /\ io' = IF ok THEN Append(io, "write") ELSE io
        /\ Goto("print")
        /\ UNCHANGED <<df, large_field_pct, out_df>>

\* out_df.to_csv(output_csv, index=False).  Writing may fail (I/O).
ToCsv ==
    /\ Running("to_csv")
    /\ \E ok \in BOOLEAN :
        IF ok
        THEN /\ output_csv' = out_df
             /\ io' = Append(io, "write")
             /\ Goto("print")
             /\ UNCHANGED <<df, large_field_pct, out_df>>
        ELSE Raise("IOError")

\* print(f"Saved transformed projections (large field) to {output_csv}")
PrintSaved ==
    /\ Running("print")
    /\ io' = Append(io, "print")
    /\ Goto("done")
    /\ UNCHANGED <<df, large_field_pct, out_df, output_csv>>

Next ==
    \/ ReadCsv
    \/ ParseSalary
    \/ ParseLargeField
    \/ OwnFrac
    \/ LeverageScore
    \/ ValuePer1k
    \/ PctRanks
    \/ LeverageDelta
    \/ Format
    \/ SelectOut
    \/ ToCsv
    \/ PrintSaved

Spec == Init /\ [][Next]_vars

SpecDelta == InitDelta /\ [][Next]_vars

SpecColumns == InitColumns /\ [][Next]_vars

(***************************************************************************)
(* Direct calls of percentrank_inc: on values, on values permuted by perm, *)
(* and on values with the other tie-break.                                 *)
(***************************************************************************)
RankValues == {Num(5, 1), Num(10, 1), Inf(1), NaN}

\* the permutations of 1..n
Perms(n) == {p \in [1..n -> 1..n] : \A i, j \in 1..n : p[i] = p[j] => i = j}

\* values o perm
Permuted(v, p) == [j \in 1..Len(v) |-> v[p[j]]]

InitRank ==
    /\ values \in SeqsOf(RankValues, 0, MaxLen)
    /\ use_first \in BOOLEAN
    /\ perm \in Perms(Len(values))
    /\ results = <<>>
    /\ input_csv = <<>>
    /\ pc = "none"
    /\ exc = "none"
    /\ df = <<>>
    /\ large_field_pct = <<>>
    /\ out_df = NoTable
    /\ output_csv = NoTable
    /\ io = <<>>

Called(k) == k \in DOMAIN results

Return(k, r) ==
    /\ results' = [c \in DOMAIN results \cup {k} |-> IF c = k THEN r ELSE results[c]]
    /\ UNCHANGED <<input_csv, pc, exc, df, large_field_pct, out_df, output_csv, io,
                   values, use_first, perm>>

Rank ==
    /\ ~Called("values")
    /\ Return("values", percentrank_inc(values, use_first))

RankPermuted ==
    /\ ~Called("permuted")
    /\ Return("permuted", percentrank_inc(Permuted(values, perm), use_first))

RankOther ==
    /\ ~Called("other")
    /\ Return("other", percentrank_inc(values, ~use_first))

NextRank == Rank \/ RankPermuted \/ RankOther

SpecRank == InitRank /\ [][NextRank]_vars

(***************************************************************************)
(* Properties of percentrank_inc (checked under SpecRank).                 *)
(***************************************************************************)
\* the first and the last 0-based position x takes when v is put in
\* ascending order (NaN last), counted without sorting
FirstPos(v, x) == Cardinality({j \in 1..Len(v) : SortsBefore(v[j], x)})

LastPos(v, x) == Len(v) - 1 - Cardinality({j \in 1..Len(v) : SortsBefore(x, v[j])})

ClaimedRank(v, x, first) ==
    Num(IF first THEN FirstPos(v, x) ELSE LastPos(v, x), Len(v) - 1)

\* C1 as stated: for every input of n >= 2 values and either tie-break the
\* result has the input's length and output[i] = p / (n - 1), p the first
\* (FIRST) or last (LAST) position of values[i] in the ascending sort.
C1_AsStated ==
    (Called("values") /\ Len(values) >= 2) =>
        /\ Len(results["values"]) = Len(values)
        /\ \A i \in 1..Len(values) :
            results["values"][i] = ClaimedRank(values, values[i], use_first)

\* C1 amended: the same for every value that is not NaN (NaNs sort last);
\* a NaN value is not found in the sorted sequence and gets rank 0.5.
C1_RankIsSortPosition ==
    (Called("values") /\ Len(values) >= 2) =>
        /\ Len(results["values"]) = Len(values)
        /\ \A i \in 1..Len(values) :
            results["values"][i] =
                IF IsNaN(values[i]) THEN Num(1, 2)
                ELSE ClaimedRank(values, values[i], use_first)

\* [5, 5] ranked LAST gives [1.0, 1.0] and ranked FIRST gives [0.0, 0.0]
C1_Witness ==
    /\ values = <<Num(5, 1), Num(5, 1)>>
    /\ ~use_first
    /\ Called("values") /\ Called("other")
    /\ results["values"] = <<Num(1, 1), Num(1, 1)>>
    /\ results["other"] = <<Num(0, 1), Num(0, 1)>>

\* C7: percentrank_inc commutes with permutations of its input: the rank
\* at position j of the permuted input is the rank of the same element in
\* the original input, rank(v o perm)[j] = rank(v)[perm[j]].
C7_PermutationInvariant ==
    (Called("values") /\ Called("permuted")) =>
        /\ Len(results["permuted"]) = Len(values)
        /\ \A j \in 1..Len(values) :
            results["permuted"][j] = results["values"][perm[j]]

\* three values, not all equal, ranked before and after a permutation that
\* moves every element
C7_Witness ==
    /\ Len(values) = 3
    /\ Called("values") /\ Called("permuted")
    /\ \A j \in 1..3 : perm[j] # j
    /\ results["values"][1] # results["values"][2]
    /\ results["permuted"] # results["values"]

\* no two positions of v hold equal floats
NoDuplicates(v) == \A i, j \in 1..Len(v) : i # j => ~FloatEq(v[i], v[j])

\* C8: on a sequence without duplicate values, of any length from 0 up,
\* the FIRST and the LAST tie-break give the same ranks.
C8_TieBreakIrrelevantWithoutDuplicates ==
    (NoDuplicates(values) /\ Called("values") /\ Called("other")) =>
        results["values"] = results["other"]

\* three distinct finite values ranked under both tie-breaks
C8_Witness ==
    /\ Len(values) = 3
    /\ NoDuplicates(values)
    /\ \A i \in 1..3 : ~IsNaN(values[i])
    /\ Called("values") /\ Called("other")
    /\ results["values"] = results["other"]
    /\ Cardinality(Range(results["values"])) = 3

(***************************************************************************)
(* Properties of transform.                                                *)
(***************************************************************************)
Computed(c) == pc # "read_csv" /\ c \in DOMAIN df

Written == output_csv # NoTable

\* the number of rows of the input file
InputRows == NRows(input_csv)

\* column c of the input as read_csv delivers it
AsRead(c) == read_column(input_csv[c])

\* the ceilings and the parsed large-field percents of the input rows
InputCeilings == [i \in 1..InputRows |-> AsRead("DK Ceiling")[i].x]

InputLargePct == [i \in 1..InputRows |-> parse_percent_str(AsRead("Large Field")[i])]

InputSalary == [i \in 1..InputRows |-> parse_salary(AsRead("DK Salary")[i])]

InputProj == [i \in 1..InputRows |-> AsRead("DK Proj")[i].x]

\* C2: for every row, leverage delta = ceilingPercentRank -
\* ownershipPercentRank of the already rounded values, ceilingPercentRank
\* being 100 * the LAST rank of the row's ceiling rounded to 2 decimals and
\* ownershipPercentRank 100 * the FIRST rank of the row's large-field
\* percent rounded to 0 decimals.
C2_LeverageDeltaFromRoundedRanks ==
    Computed("leverage_delta_raw") =>
        LET ceiling_rank == percentrank_inc(InputCeilings, FALSE)
            ownership_rank == percentrank_inc(InputLargePct, TRUE)
        IN  \A i \in 1..InputRows :
                LET c == FloatRound(FloatMul(ceiling_rank[i], Num(100, 1)), 2)
                    o == FloatRound(FloatMul(ownership_rank[i], Num(100, 1)), 0)
                IN  /\ df["CEILING_PCT_RANK"][i] = c
                    /\ df["OWNERSHIP_PCT_RANK"][i] = o
                    /\ df["leverage_delta_raw"][i] = FloatSub(c, o)

\* ceilings [10, 20] with ownership [50%, 50%], written out
C2_Witness ==
    /\ pc = "done"
    /\ input_csv["DK Ceiling"] = <<<<"1", "0">>, <<"2", "0">>>>
    /\ input_csv["Large Field"] = <<<<"5", "0", "%">>, <<"5", "0", "%">>>>
    /\ output_csv.data["OWN_FRAC"] = <<Num(1, 2), Num(1, 2)>>
    /\ output_csv.data["LEVERAGE_SCORE"] = <<Num(5, 1), Num(10, 1)>>
    /\ output_csv.data["CEILING_PCT_RANK"] = <<"0.00%", "100.00%">>
    /\ output_csv.data["OWNERSHIP_PCT_RANK"] = <<"0%", "0%">>
    /\ output_csv.data["leverage_delta"] = <<"0.0%", "100.0%">>

\* C3 as stated: on a table with every required column, whatever its cells
\* hold, transform raises nothing of its own (only I/O can end the run).
C3_NeverRaisesOnCells ==
    (InputColumns \subseteq DOMAIN input_csv) => exc \in {"none", "IOError"}

\* the columns whose absence ends the run
NeededColumns == InputColumns \ {"Small Field"}

\* an exception has ended the run before anything was written or printed
EndedInError == exc # "none" /\ ~Written /\ io \in {<<>>, <<"read">>}

\* the steps that come before the write
StepsBeforeWrite ==
    {"read_csv", "salary_num", "large_field", "OWN_FRAC", "LEVERAGE_SCORE",
     "VALUE_PER_1k_raw", "PCT_RANK", "leverage_delta_raw", "format", "out_df"}

\* no exception yet, nothing written or printed, and the run is at a step
\* before the write (each of which either goes on or raises)
StillRunning ==
    /\ exc = "none" /\ ~Written /\ io \in {<<>>, <<"read">>}
    /\ pc \in StepsBeforeWrite

\* C4 as stated: a run on a table lacking any of the twelve input columns
\* ends in an error and never writes the output.
C4_AsStated ==
    (InputColumns \ DOMAIN input_csv # {}) =>
        /\ ~Written
        /\ "write" \notin Range(io)
        /\ pc # "done"

\* C4 amended: the same for the eleven columns other than Small Field.
C4_MissingNeededColumnIsFatal ==
    (NeededColumns \ DOMAIN input_csv # {}) => (EndedInError \/ StillRunning)

\* a table lacking only id: the run got as far as the column selection and
\* ended there with KeyError
C4_Witness ==
    /\ DOMAIN input_csv = InputColumns \ {"id"}
    /\ pc = "out_df"
    /\ exc = "KeyError"
    /\ EndedInError

\* C5 as stated: a row whose parsed salary is zero or missing has a NaN
\* value-per-1000 and an empty formatted cell; every other row has "$" and
\* projection / (salary / 1000) with 2 decimals.
C5_ValuePer1000 ==
    Computed("VALUE_PER_1k") =>
        \A i \in 1..InputRows :
            IF IsNaN(InputSalary[i]) \/ InputSalary[i] = Num(0, 1)
            THEN IsNaN(df["VALUE_PER_1k_raw"][i]) /\ df["VALUE_PER_1k"][i] = ""
            ELSE df["VALUE_PER_1k"][i] =
                    "$" \o FormatFixed(FloatDiv(InputProj[i],
                                                FloatDiv(InputSalary[i], Num(1000, 1))),
                                       2, FALSE)

\* the columns handed through untouched
PassedThrough == {"Player", "DK Pos", "Team", "Opp", "DK Proj", "DK Value",
                  "DK Floor", "DK Ceiling", "id"}

\* C6: the output has as many rows as the input, in every column, and
\* output row i comes from input row i: its passed-through cells are the
\* input's, and its formatted salary is that of input row i.
C6_RowsKeptInPlace ==
    Written =>
        /\ \A c \in DOMAIN output_csv.data : Len(output_csv.data[c]) = InputRows
        /\ \A c \in PassedThrough : output_csv.data[c] = AsRead(c)
        /\ \A i \in 1..InputRows :
            output_csv.data["DK Salary"][i] = FormatSalary(InputSalary[i])

\* two rows whose ceilings are in descending order, written in input order
C6_Witness ==
    /\ Written
    /\ InputRows = 2
    /\ input_csv["DK Ceiling"] = <<<<"2", "0">>, <<"1", "0">>>>
    /\ output_csv.data["Player"] = <<Str(<<"P", "1">>), Str(<<"P", "2">>)>>
    /\ output_csv.data["DK Ceiling"] = <<Flt(Num(20, 1)), Flt(Num(10, 1))>>

\* x is found in the sorted sequence derived from its own column
Found(col, x) == np_where(np_sort(col), x) # {}

\* percentrank_inc runs its fallback branch for col[i]: the loop is entered
\* (two values or more) and col[i] is not found
FallbackTaken(col, i) == Len(col) >= 2 /\ ~Found(col, col[i])

\* C9 as stated: in both ranked columns every value is found in the sorted
\* sequence of its column, whatever the cells hold, so no rank is the
\* fallback.
C9_AsStated ==
    Computed("CEILING_PCT_RANK") =>
        \A i \in 1..InputRows :
            /\ ~FallbackTaken(InputCeilings, i)
            /\ ~FallbackTaken(InputLargePct, i)

\* the percent ranks stored for a column hold 50 (the fallback, times 100)
\* exactly at its NaN values when there are two rows or more, and a value
\* is missing from the sorted sequence exactly when it is NaN
FallbackOnlyForNaN(col, pct) ==
    \A i \in 1..Len(col) :
        /\ ~Found(col, col[i]) <=> IsNaN(col[i])
        /\ FallbackTaken(col, i) <=> (IsNaN(col[i]) /\ Len(col) >= 2)
        /\ FallbackTaken(col, i) => pct[i] = Num(50, 1)
        /\ Len(col) <= 1 => pct[i] = Num(0, 1)

\* C9 amended: in both ranked columns a value is absent from the sorted
\* sequence exactly when it is NaN (an empty Ceiling cell, a Large Field
\* cell such as "nan%"); with two rows or more exactly those values get
\* the fallback rank 0.5.
C9_FallbackExactlyForNaN ==
    Computed("CEILING_PCT_RANK") =>
        /\ FallbackOnlyForNaN(InputCeilings, df["CEILING_PCT_RANK"])
        /\ FallbackOnlyForNaN(InputLargePct, df["OWNERSHIP_PCT_RANK"])

\* two rows, the second with an empty Ceiling cell: its rank is the fallback
C9_Witness ==
    /\ Computed("CEILING_PCT_RANK")
    /\ input_csv["DK Ceiling"] = <<<<"1", "0">>, <<>>>>
    /\ df["CEILING_PCT_RANK"] = <<Num(0, 1), Num(50, 1)>>

IsPrefix(s, t) == Len(s) <= Len(t) /\ s = SubSeq(t, 1, Len(s))

\* C10: the input is read once, before any computation; the output is
\* written at most once, after every derived and formatted column has been
\* computed for all rows; a run that fails writes nothing and prints no
\* confirmation.
C10_ReadComputeWriteOnce ==
    /\ IsPrefix(io, <<"read", "write", "print">>)
    /\ pc # "read_csv" => IsPrefix(<<"read">>, io)
    /\ Written <=> IsPrefix(<<"read", "write">>, io)
    /\ Written =>
        /\ Range(out_cols) \subseteq DOMAIN df
        /\ \A c \in DOMAIN df : Len(df[c]) = InputRows
        /\ output_csv = select_out(df)
    /\ exc # "none" => (~Written /\ IsPrefix(io, <<"read">>))
    /\ pc = "done" => io = <<"read", "write", "print">>

\* a run that went through: read, write, print
C10_Witness ==
    /\ pc = "done"
    /\ exc = "none"
    /\ io = <<"read", "write", "print">>
    /\ Written
    /\ InputRows = 2

=============================================================================
